---- MODULE Spec2Model ----
(***************************************************************************)
(* The chat message pipeline of Property-Hub (src/apps/chat/consumers.py): *)
(* the ChatConsumer WebSocket session, its message-type dispatch, the      *)
(* Redis sorted-set sliding-window rate limiter, the Message store and the *)
(* channel-layer group broadcast.                                          *)
(*                                                                         *)
(* Time is counted in ticks of 1/TicksPerSecond second, so that the        *)
(* truncation int(...) of the cooldown computation is not the identity.    *)
(* A message text is a sequence of runs [k, n]: n characters of kind k.    *)
(***************************************************************************)
EXTENDS Integers, Sequences, FiniteSets, Bags, TLC

(* ------------------------------ bounds -------------------------------- *)

\* inbound frames the sessions handle in one behaviour of Spec
MaxFrames == 2

\* calls of check_rate_limit in one behaviour of SpecRate
MaxAttempts == 12

\* of which by each session other than the first
MaxSideAttempts == 1

\* resolution of the clock: ticks per second
TicksPerSecond == 2

\* ticks of clock advance beyond one rate-limit window that SpecRate explores
ClockSlack == 14

(* -------------------------- program constants ------------------------- *)

RATE_LIMIT_MESSAGES == 10

RATE_LIMIT_WINDOW == 60

MAX_MESSAGE_LENGTH == 5000

CLOSE_UNAUTHENTICATED == 4001

CLOSE_FORBIDDEN == 4003

CLOSE_VANISHED == 4004

STATUS_TOO_MANY == 429

\* RATE_LIMIT_WINDOW in ticks
WindowTicks == RATE_LIMIT_WINDOW * TicksPerSecond

MaxClock == WindowTicks + ClockSlack

\* between two readings of the clock no time passes (the readings are
\* equal), or one tick, or one tick less than the window
TickSteps == {0, 1, WindowTicks - 1}

(* ------------------------------ universe ------------------------------ *)

\* the WebSocket sessions, one ChatConsumer instance (and channel) each
Sessions == {"s1", "s2"}

MainSession == "s1"

\* scope["user"]: AnonymousUser (not authenticated) or a User id
Anonymous == "anonymous"

Users == {"u1", "u2", "u3"}

\* the listings (rows of properties_property)
Properties == {"p1", "p2"}

\* Property.user: the owner of a listing
Owner(p) == IF p = "p1" THEN "u1" ELSE "u3"

\* rows of chat_conversation at start: 1 is between u1 and u2 about p1, 2 is
\* the degenerate conversation of u3 with themself; no row has id 3. Both
\* were saved last before the clock of the model started.
InitialConversations ==
    { [id |-> 1, property |-> "p1", participant_one |-> "u1",
       participant_two |-> "u2", updated_at |-> -2],
      [id |-> 2, property |-> "p2", participant_one |-> "u3",
       participant_two |-> "u3", updated_at |-> -1] }

ConversationIds == {1, 2, 3}

\* the conversations the property-management side deletes
DeletableConversations == {1}

\* what the session has cached before get_conversation() ran
NoConversation ==
    [id |-> 0, property |-> "", participant_one |-> "", participant_two |-> "",
     updated_at |-> 0]

NoMessage == [id |-> 0, conversation |-> 0, sender |-> "", content |-> <<>>,
              created_at |-> 0, is_read |-> FALSE]

(* ------------------------------ texts --------------------------------- *)

\* kinds of run: whitespace, plain characters, '&' characters, a markup tag
\* (<b>, </b>, ...), a <script>...</script> element with its content, and
\* (in sanitizer output) the entity "&amp;"
Run(k, n) == [k |-> k, n |-> n]

KindWidth(k) == IF k = "ent" THEN 5 ELSE 1

RECURSIVE TextLen(_)
\* len(str)
TextLen(t) == IF t = <<>> THEN 0
              ELSE Head(t).n * KindWidth(Head(t).k) + TextLen(Tail(t))

RECURSIVE LStrip(_)
LStrip(t) == IF t = <<>> THEN <<>>
             ELSE IF Head(t).k = "sp" THEN LStrip(Tail(t)) ELSE t

RECURSIVE RStrip(_)
RStrip(t) == IF t = <<>> THEN <<>>
             ELSE IF t[Len(t)].k = "sp" THEN RStrip(SubSeq(t, 1, Len(t) - 1))
             ELSE t

\* str.strip()
Strip(t) == RStrip(LStrip(t))

\* appends a run to a text, merging it into a last run of the same kind
AppendRun(t, r) ==
    IF t # <<>> /\ t[Len(t)].k = r.k
    THEN [t EXCEPT ![Len(t)] = Run(r.k, @.n + r.n)]
    ELSE Append(t, r)

RECURSIVE CleanInto(_, _)
CleanInto(acc, t) ==
    IF t = <<>> THEN acc
    ELSE LET r == Head(t)
         IN  IF r.k \in {"tag", "script"} THEN CleanInto(acc, Tail(t))
             ELSE IF r.k = "amp"
                  THEN CleanInto(AppendRun(acc, Run("ent", r.n)), Tail(t))
                  ELSE CleanInto(AppendRun(acc, r), Tail(t))

\* nh3.clean(text, tags=set()): every tag is dropped, a script element is
\* dropped with its content, and the remaining text is serialized as HTML
\* ('&' becomes "&amp;")
NhClean(t) == CleanInto(<<>>, t)

TxtBlank == << Run("sp", 2) >>

TxtHello == << Run("sp", 1), Run("ch", 5), Run("sp", 1) >>

\* '<script>alert("XSS")</script>Hello'
TxtXss == << Run("script", 29), Run("ch", 5) >>

TxtMax == << Run("sp", 1), Run("ch", MAX_MESSAGE_LENGTH) >>

TxtTooLong == << Run("ch", MAX_MESSAGE_LENGTH + 1), Run("sp", 1) >>

Texts == {TxtBlank, TxtHello, TxtXss, TxtMax, TxtTooLong}

(* --------------------------- inbound frames --------------------------- *)

\* A text frame a client sends: json is how json.loads() takes it, type is
\* the "type" key ("absent" when the key is missing), message_kind says
\* whether the "message" key is missing, a string, or another JSON value.
Frame(j, t, mk, m) == [json |-> j, type |-> t, message_kind |-> mk, message |-> m]

InboundFrames ==
    { Frame("malformed", "absent", "absent", <<>>),
      Frame("not_object", "absent", "absent", <<>>),
      Frame("object", "ping", "absent", <<>>),
      Frame("object", "typing", "absent", <<>>),
      Frame("object", "chat_message", "absent", <<>>),
      Frame("object", "chat_message", "other", <<>>),
      Frame("object", "absent", "str", TxtHello) }
    \cup { Frame("object", "chat_message", "str", t) : t \in Texts }

\* the frames SpecRate's sessions send: valid chat messages only
ValidChatFrame == Frame("object", "chat_message", "str", TxtHello)

(* --------------------------- outbound frames -------------------------- *)

ErrInvalidFormat == "Invalid message format"

ErrUnexpected == "An error occurred while processing your message"

ErrEmpty == "Message content cannot be empty"

ErrTooLong == "Message exceeds maximum length of 5000 characters"

ErrSelf == "Cannot send messages to yourself"

ErrSaveFailed == "Failed to save message"

ErrUnknownType == "Unknown message type"

ErrorFrame(m) == [type |-> "error", message |-> m]

PongFrame == [type |-> "pong"]

RateLimitFrame(cooldown) ==
    [type |-> "rate_limit_error",
     message |-> << "Rate limit exceeded. Please wait ", cooldown,
                    " seconds before sending another message." >>,
     cooldown_seconds |-> cooldown, status_code |-> STATUS_TOO_MANY]

\* variant: the event built from the draft, before the insert
ChatEventDraft(row) ==
    [type |-> "chat_message", message |-> row.content, sender_id |-> row.sender,
     sender_email |-> row.sender, message_id |-> 0, created_at |-> row.created_at]

\* the event _dispatch publishes for a saved Message row
ChatEvent(row) ==
    [type |-> "chat_message", message |-> row.content, sender_id |-> row.sender,
     sender_email |-> row.sender, message_id |-> row.id,
     created_at |-> row.created_at]

\* the frame chat_message() forwards to the socket for an event
MessageFrame(event) ==
    [type |-> "message", message |-> event.message, sender_id |-> event.sender_id,
     sender_email |-> event.sender_email, message_id |-> event.message_id,
     created_at |-> event.created_at]

(* ------------------------------- state -------------------------------- *)

VARIABLES
    clock,          \* time.time() and the Redis server's clock, in ticks
    zsets,          \* Redis: rate-limit key -> sorted set (member = score)
    expire_at,      \* Redis: rate-limit key -> clock value at which the key expires
    rl_log,         \* history: bag of executed check_rate_limit calls
    conversations,  \* rows of chat_conversation
    messages,       \* rows of chat_message, in order of insertion
    next_id,        \* the next Message id the database assigns
    self,           \* session -> the ChatConsumer instance's fields and position
    groups,         \* channel layer: conversation id of the group name -> channels
    inbox,          \* channel layer: channel -> events published and not yet handled
    outbox,         \* session -> frames sent to the client's socket
    frames_left     \* inbound frames (Spec) or rate-limit calls (SpecRate) left

vars == <<clock, zsets, expire_at, rl_log, conversations, messages, next_id,
          self, groups, inbox, outbox, frames_left>>

\* a ChatConsumer before connect() ran
NewConsumer ==
    [pc |-> "new", user |-> Anonymous, conversation_id |-> 0, room_group_name |-> 0,
     conversation |-> NoConversation, close_code |-> 0, accepted |-> FALSE,
     message_content |-> <<>>, current_time |-> -1,
     is_allowed |-> TRUE, cooldown_seconds |-> 0, message |-> NoMessage]

\* the local variables of _dispatch() and check_rate_limit(), which end with
\* the handler; current_time stays as the session's last reading of the clock
NoLocals ==
    [message_content |-> <<>>, is_allowed |-> TRUE, cooldown_seconds |-> 0,
     message |-> NoMessage]

\* the handler returns: the consumer waits for its next frame or event
Return == [pc |-> "idle"] @@ NoLocals

SetOf(s, fields) == [self EXCEPT ![s] = fields @@ self[s]]

Send(s, frame) == [outbox EXCEPT ![s] = Append(@, frame)]

(* ------------------------- persistence gateway ------------------------ *)

ConversationRows(cid) == {c \in conversations : c.id = cid}

\* variant: the check of the participants left out
CheckUserIsParticipantAlways(cid, u) == TRUE

\* check_user_is_participant()
CheckUserIsParticipant(cid, u) ==
    \E c \in ConversationRows(cid) : c.participant_one = u \/ c.participant_two = u

\* get_conversation(): the row, or NoConversation for None
GetConversation(cid) ==
    IF ConversationRows(cid) = {} THEN NoConversation
    ELSE CHOOSE c \in ConversationRows(cid) : TRUE

\* get_recipient_id(), on the cached conversation
GetRecipientId(conv, u) ==
    IF conv.participant_one = u THEN conv.participant_two ELSE conv.participant_one

\* Message.objects.create(...): the new row
NewMessageRow(conv, u, content) ==
    [id |-> next_id, conversation |-> conv.id, sender |-> u, content |-> content,
     created_at |-> clock, is_read |-> FALSE]

\* variant: an insert that does not need the conversation's row
CanSaveCached(conv) == conv.id # 0

\* save_message() succeeds iff the cached conversation is set and its row
\* still exists (the foreign key of the insert holds)
CanSave(conv) == conv.id # 0 /\ ConversationRows(conv.id) # {}

(* ---------------------------- rate limiter --------------------------- *)

\* variant: one key for every identity
RateLimitKeyShared(u) == "u1"

\* key = f"rate_limit:chat:{self.user.id}"
RateLimitKey(u) == u

\* the sorted set stored at a key; a key past its expiry is gone
LiveZset(key) == IF clock >= expire_at[key] THEN {} ELSE zsets[key]

\* ZREMRANGEBYSCORE key lo hi: both ends inclusive
ZRemRangeByScore(z, lo, hi) == {e \in z : ~(lo <= e /\ e <= hi)}

\* ZADD key {str(t): t}: a member that is already there is not added again
ZAdd(z, t) == z \cup {t}

ZCard(z) == Cardinality(z)

\* ZRANGE key 0 0 WITHSCORES on a non-empty set: the lowest score
ZFirst(z) == CHOOSE e \in z : \A f \in z : e <= f

\* int(x) of a number of seconds given in ticks: truncation towards zero
IntOfTicks(x) == IF x >= 0 THEN x \div TicksPerSecond
                 ELSE -((-x) \div TicksPerSecond)

\* int(oldest_timestamp + RATE_LIMIT_WINDOW - current_time) + 1
Cooldown(oldest_timestamp, current_time) ==
    IntOfTicks(oldest_timestamp + WindowTicks - current_time) + 1

\* message_count <= RATE_LIMIT_MESSAGES
WithinLimit(message_count) == message_count <= RATE_LIMIT_MESSAGES

\* the pipeline of check_rate_limit, executed atomically by Redis:
\* ZREMRANGEBYSCORE, ZADD, ZCARD, EXPIRE
RLExec(s) ==
    /\ self[s].pc = "rl_exec"
    /\ LET key == RateLimitKey(self[s].user)
           current_time == self[s].current_time
           window_start == current_time - WindowTicks
           z == ZAdd(ZRemRangeByScore(LiveZset(key), 0, window_start), current_time)
           message_count == ZCard(z)
       IN  /\ zsets' = [zsets EXCEPT ![key] = z]
           /\ expire_at' = [expire_at EXCEPT ![key] = clock + WindowTicks]
           /\ rl_log' = rl_log (+) SetToBag({[user |-> self[s].user,
                                               ts |-> current_time,
                                               allowed |-> WithinLimit(message_count)]})
           /\ self' = IF WithinLimit(message_count)
                      THEN SetOf(s, [pc |-> "rl_done", is_allowed |-> TRUE,
                                     cooldown_seconds |-> 0])
                      ELSE SetOf(s, [pc |-> "rl_oldest"])
    /\ UNCHANGED <<clock, conversations, messages, next_id, groups, inbox, outbox,
                   frames_left>>

\* the rejected path of check_rate_limit: a second connection reads the
\* oldest entry and the cooldown is computed from it
RLOldest(s) ==
    /\ self[s].pc = "rl_oldest"
    /\ LET oldest == LiveZset(RateLimitKey(self[s].user))
           cooldown == IF oldest # {}
                       THEN Cooldown(ZFirst(oldest), self[s].current_time)
                       ELSE RATE_LIMIT_WINDOW
       IN  self' = SetOf(s, [pc |-> "rl_done", is_allowed |-> FALSE,
                             cooldown_seconds |-> cooldown])
    /\ UNCHANGED <<clock, zsets, expire_at, rl_log, conversations, messages, next_id,
                   groups, inbox, outbox, frames_left>>

(* ------------------------- connection lifecycle ----------------------- *)

\* variant: the check of the identity left out
IsAuthenticatedAlways(u) == TRUE

\* self.user and self.user.is_authenticated
IsAuthenticated(u) == u # Anonymous

\* connect(), up to and including the participant check: the route's
\* conversation id c and the scope's user u are the inputs
Connect(s, u, c) ==
    /\ self[s].pc = "new"
    /\ LET bound == [user |-> u, conversation_id |-> c, room_group_name |-> c]
       IN  self' = IF ~IsAuthenticated(u)
                   THEN SetOf(s, [pc |-> "closing",
                                  close_code |-> CLOSE_UNAUTHENTICATED] @@ bound)
                   ELSE IF ~CheckUserIsParticipant(c, u)
                   THEN SetOf(s, [pc |-> "closing",
                                  close_code |-> CLOSE_FORBIDDEN] @@ bound)
                   ELSE SetOf(s, [pc |-> "get_conversation"] @@ bound)
    /\ UNCHANGED <<clock, zsets, expire_at, rl_log, conversations, messages, next_id,
                   groups, inbox, outbox, frames_left>>

\* connect(): self.conversation = await self.get_conversation()
ConnectGetConversation(s) ==
    /\ self[s].pc = "get_conversation"
    /\ LET conv == GetConversation(self[s].conversation_id)
       IN  self' = IF conv = NoConversation
                   THEN SetOf(s, [pc |-> "closing", close_code |-> CLOSE_VANISHED])
                   ELSE SetOf(s, [pc |-> "group_add", conversation |-> conv])
    /\ UNCHANGED <<clock, zsets, expire_at, rl_log, conversations, messages, next_id,
                   groups, inbox, outbox, frames_left>>

\* variant: the handshake goes on to accept() without joining the group
ConnectGroupAddSkipped(s) ==
    /\ self[s].pc = "group_add"
    /\ self' = SetOf(s, [pc |-> "accept"])
    /\ UNCHANGED <<clock, zsets, expire_at, rl_log, conversations, messages, next_id,
                   groups, inbox, outbox, frames_left>>

\* connect(): channel_layer.group_add(self.room_group_name, self.channel_name)
ConnectGroupAdd(s) ==
    /\ self[s].pc = "group_add"
    /\ groups' = [groups EXCEPT ![self[s].room_group_name] = @ \cup {s}]
    /\ self' = SetOf(s, [pc |-> "accept"])
    /\ UNCHANGED <<clock, zsets, expire_at, rl_log, conversations, messages, next_id,
                   inbox, outbox, frames_left>>

\* variant: an accept() followed by a push of the stored unread messages of
\* the other participant
ConnectAcceptPushUnread(s) ==
    /\ self[s].pc = "accept"
    /\ self' = SetOf(s, [pc |-> "idle", accepted |-> TRUE])
    /\ LET unread == SelectSeq(messages,
                         LAMBDA m : /\ m.conversation = self[s].conversation_id
                                    /\ m.sender # self[s].user
                                    /\ ~m.is_read)
       IN  outbox' = [outbox EXCEPT ![s] =
                         @ \o [i \in 1..Len(unread) |-> MessageFrame(ChatEvent(unread[i]))]]
    /\ UNCHANGED <<clock, zsets, expire_at, rl_log, conversations, messages, next_id,
                   groups, inbox, frames_left>>

\* connect(): await self.accept()
ConnectAccept(s) ==
    /\ self[s].pc = "accept"
    /\ self' = SetOf(s, [pc |-> "idle", accepted |-> TRUE])
    /\ UNCHANGED <<clock, zsets, expire_at, rl_log, conversations, messages, next_id,
                   groups, inbox, outbox, frames_left>>

\* variant: a disconnect() that does not call group_discard
DisconnectNoLeave(s) ==
    /\ self[s].pc \in {"closing", "idle"}
    /\ inbox' = [inbox EXCEPT ![s] = <<>>]
    /\ self' = SetOf(s, [pc |-> "closed"])
    /\ UNCHANGED <<clock, zsets, expire_at, rl_log, conversations, messages, next_id,
                   groups, outbox, frames_left>>

\* disconnect(): runs when the socket closes, after a close() of connect() or
\* while the session waits for a frame; events left on the channel are lost
Disconnect(s) ==
    /\ self[s].pc \in {"closing", "idle"}
    /\ groups' = IF self[s].room_group_name # 0
                 THEN [groups EXCEPT ![self[s].room_group_name] = @ \ {s}]
                 ELSE groups
    /\ inbox' = [inbox EXCEPT ![s] = <<>>]
    /\ self' = SetOf(s, [pc |-> "closed"])
    /\ UNCHANGED <<clock, zsets, expire_at, rl_log, conversations, messages, next_id,
                   outbox, frames_left>>

(* ----------------------------- dispatcher ----------------------------- *)

\* variant: the type read without a default
MsgTypeNoDefault(frame) == frame.type

\* text_data_json.get("type", "chat_message")
MsgType(frame) == IF frame.type = "absent" THEN "chat_message" ELSE frame.type

\* data.get("message", "").strip()
MessageContent(frame) ==
    IF frame.message_kind = "absent" THEN <<>> ELSE Strip(frame.message)

\* not message_content
IsEmpty(content) == content = <<>>

\* variant: the limit taken as exclusive
IsTooLongInclusive(content) == TextLen(content) >= MAX_MESSAGE_LENGTH

\* len(message_content) > 5000
IsTooLong(content) == TextLen(content) > MAX_MESSAGE_LENGTH

\* variant: no case for the health check
IsPingNever(msg_type) == FALSE

\* if msg_type == "ping"
IsPing(msg_type) == msg_type = "ping"

\* The reply receive() and _dispatch() give at once, without reaching the
\* rate limiter; "none" when the frame is a chat message that passed the
\* content checks.
ImmediateReply(frame) ==
    IF frame.json = "malformed" THEN ErrorFrame(ErrInvalidFormat)
    ELSE IF frame.json = "not_object" THEN ErrorFrame(ErrUnexpected)
    ELSE IF IsPing(MsgType(frame)) THEN PongFrame
    ELSE IF MsgType(frame) # "chat_message" THEN ErrorFrame(ErrUnknownType)
    ELSE IF frame.message_kind = "other" THEN ErrorFrame(ErrUnexpected)
    ELSE IF IsEmpty(MessageContent(frame)) THEN ErrorFrame(ErrEmpty)
    ELSE IF IsTooLong(MessageContent(frame)) THEN ErrorFrame(ErrTooLong)
    ELSE [type |-> "none"]

\* receive() and _dispatch() up to the first await of check_rate_limit():
\* a frame is answered at once, or it is a chat message that passed the
\* content checks, and check_rate_limit() has read the clock, d ticks after
\* the clock was last read. Two readings of one session differ (a round trip
\* to Redis lies between them); readings of two sessions may be equal.
Receive(s, frame, d) ==
    /\ self[s].pc = "idle"
    /\ frames_left > 0
    /\ frames_left' = frames_left - 1
    /\ IF ImmediateReply(frame).type # "none"
       THEN /\ outbox' = Send(s, ImmediateReply(frame))
            /\ UNCHANGED <<self, clock>>
       ELSE /\ self[s].current_time < clock + d
            /\ clock + d <= MaxClock
            /\ clock' = clock + d
            /\ outbox' = outbox
            /\ self' = SetOf(s, [pc |-> "rl_exec",
                                 message_content |-> MessageContent(frame),
                                 current_time |-> clock + d])
    /\ UNCHANGED <<zsets, expire_at, rl_log, conversations, messages, next_id,
                   groups, inbox>>

\* variant: the limiter's verdict ignored
NotAllowedNever(is_allowed) == FALSE

\* if not is_allowed
NotAllowed(is_allowed) == ~is_allowed

\* variant: the recipient check left out
IsSelfMessageNever(recipient_id, user_id) == FALSE

\* recipient_id == self.user.id
IsSelfMessage(recipient_id, user_id) == recipient_id = user_id

\* _dispatch() from the return of check_rate_limit() to the return of
\* save_message(): the rate-limit reply, the sanitizer, the recipient check
\* and the insert
DispatchAfterRateLimit(s) ==
    /\ self[s].pc = "rl_done"
    /\ LET sanitized_content == NhClean(self[s].message_content)
           recipient_id == GetRecipientId(self[s].conversation, self[s].user)
           row == NewMessageRow(self[s].conversation, self[s].user, sanitized_content)
       IN  IF NotAllowed(self[s].is_allowed)
           THEN /\ outbox' = Send(s, RateLimitFrame(self[s].cooldown_seconds))
                /\ self' = SetOf(s, Return)
                /\ UNCHANGED <<messages, next_id>>
           ELSE IF IsSelfMessage(recipient_id, self[s].user)
           THEN /\ outbox' = Send(s, ErrorFrame(ErrSelf))
                /\ self' = SetOf(s, Return)
                /\ UNCHANGED <<messages, next_id>>
           ELSE IF ~CanSave(self[s].conversation)
           THEN /\ outbox' = Send(s, ErrorFrame(ErrSaveFailed))
                /\ self' = SetOf(s, Return)
                /\ UNCHANGED <<messages, next_id>>
           ELSE /\ messages' = Append(messages, row)
                /\ next_id' = next_id + 1
                /\ self' = SetOf(s, [pc |-> "group_send", message |-> row])
                /\ outbox' = outbox
    /\ UNCHANGED <<clock, zsets, expire_at, rl_log, conversations, groups, inbox,
                   frames_left>>

(* ------------------------- group broadcaster -------------------------- *)

\* variant: a send that reaches one channel of the group only
GroupChannelsOne(name) ==
    IF groups[name] = {} THEN {} ELSE {CHOOSE t \in groups[name] : TRUE}

\* the channels a group_send to the group reaches
GroupChannels(name) == groups[name]

\* _dispatch(): channel_layer.group_send(self.room_group_name, event)
GroupSend(s) ==
    /\ self[s].pc = "group_send"
    /\ inbox' = [t \in Sessions |->
                    IF t \in GroupChannels(self[s].room_group_name)
                    THEN Append(inbox[t], ChatEvent(self[s].message))
                    ELSE inbox[t]]
    /\ self' = SetOf(s, Return)
    /\ UNCHANGED <<clock, zsets, expire_at, rl_log, conversations, messages, next_id,
                   groups, outbox, frames_left>>

\* variant: the consumer takes the newest event of its channel first
chat_messageNewestFirst(s) ==
    /\ self[s].pc = "idle"
    /\ inbox[s] # <<>>
    /\ outbox' = Send(s, MessageFrame(inbox[s][Len(inbox[s])]))
    /\ inbox' = [inbox EXCEPT ![s] = SubSeq(@, 1, Len(@) - 1)]
    /\ UNCHANGED <<clock, zsets, expire_at, rl_log, conversations, messages, next_id,
                   self, groups, frames_left>>

\* chat_message(event): the consumer takes the next event of its channel
\* when no other handler of it is running
chat_message(s) ==
    /\ self[s].pc = "idle"
    /\ inbox[s] # <<>>
    /\ outbox' = Send(s, MessageFrame(Head(inbox[s])))
    /\ inbox' = [inbox EXCEPT ![s] = Tail(@)]
    /\ UNCHANGED <<clock, zsets, expire_at, rl_log, conversations, messages, next_id,
                   self, groups, frames_left>>

(* ---------------------------- environment ----------------------------- *)

RECURSIVE SelectRows(_, _)
SelectRows(rows, cid) ==
    IF rows = <<>> THEN <<>>
    ELSE IF Head(rows).conversation = cid THEN SelectRows(Tail(rows), cid)
    ELSE <<Head(rows)>> \o SelectRows(Tail(rows), cid)

\* Conversation.objects.filter(id=c).delete(): the row goes, and its
\* messages with it (on_delete=CASCADE)
DeleteConversation(c) ==
    /\ ConversationRows(c) # {}
    /\ conversations' = conversations \ ConversationRows(c)
    /\ messages' = SelectRows(messages, c)
    /\ UNCHANGED <<clock, zsets, expire_at, rl_log, next_id, self, groups, inbox,
                   outbox, frames_left>>

(* --------------------------- specifications --------------------------- *)

\* the timestamps of a user who has just sent n messages, one per tick
RecentStamps(n) == 1..n

\* The sessions are not connected. The rate-limit windows outlive the
\* connections: u1 has just sent RATE_LIMIT_MESSAGES messages, the windows of
\* the other users are empty.
Init ==
    /\ clock = RATE_LIMIT_MESSAGES + 1
    /\ zsets = [k \in Users |-> IF k = "u1" THEN RecentStamps(RATE_LIMIT_MESSAGES)
                                ELSE {}]
    /\ expire_at = [k \in Users |-> IF k = "u1"
                                    THEN RATE_LIMIT_MESSAGES + WindowTicks ELSE 0]
    /\ rl_log = SetToBag({[user |-> "u1", ts |-> t, allowed |-> TRUE] :
                              t \in RecentStamps(RATE_LIMIT_MESSAGES)})
    /\ conversations = InitialConversations
    /\ messages = <<>>
    /\ next_id = 1
    /\ self = [s \in Sessions |-> NewConsumer]
    /\ groups = [c \in ConversationIds |-> {}]
    /\ inbox = [s \in Sessions |-> <<>>]
    /\ outbox = [s \in Sessions |-> <<>>]
    /\ frames_left = MaxFrames

Next ==
    \/ \E s \in Sessions, u \in Users \cup {Anonymous}, c \in ConversationIds :
          Connect(s, u, c)
    \/ \E s \in Sessions : ConnectGetConversation(s)
    \/ \E s \in Sessions : ConnectGroupAdd(s)
    \/ \E s \in Sessions : ConnectAccept(s)
    \/ \E s \in Sessions : Disconnect(s)
    \/ \E s \in Sessions, frame \in InboundFrames, d \in {0, 1} :
          Receive(s, frame, d)
    \/ \E s \in Sessions : RLExec(s)
    \/ \E s \in Sessions : RLOldest(s)
    \/ \E s \in Sessions : DispatchAfterRateLimit(s)
    \/ \E s \in Sessions : GroupSend(s)
    \/ \E s \in Sessions : chat_message(s)
    \/ \E c \in DeletableConversations : DeleteConversation(c)

Spec == Init /\ [][Next]_vars

\* a consumer of user u that completed connect() for conversation 1
GetConversationAtStart(cid) == CHOOSE c \in InitialConversations : c.id = cid

ConnectedConsumer(u) ==
    [pc |-> "idle", user |-> u, conversation_id |-> 1, room_group_name |-> 1,
     conversation |-> GetConversationAtStart(1), accepted |-> TRUE] @@ NewConsumer

\* Every session is a connected session of u1 in conversation 1 (several
\* tabs or workers of one identity) whose conversation row was deleted after
\* the handshakes, so that no attempt stores or publishes a message; the
\* window is empty, and time passes.
InitRate ==
    /\ clock = 0
    /\ zsets = [k \in Users |-> {}]
    /\ expire_at = [k \in Users |-> 0]
    /\ rl_log = EmptyBag
    /\ conversations = InitialConversations \ {GetConversationAtStart(1)}
    /\ messages = <<>>
    /\ next_id = 1
    /\ self = [s \in Sessions |-> ConnectedConsumer("u1")]
    /\ groups = [c \in ConversationIds |-> IF c = 1 THEN Sessions ELSE {}]
    /\ inbox = [s \in Sessions |-> <<>>]
    /\ outbox = [s \in Sessions |-> <<>>]
    /\ frames_left = MaxAttempts

\* the attempts session s has made or is making
AttemptsOf(s) == Len(outbox[s]) + (IF self[s].pc = "idle" THEN 0 ELSE 1)

NextRate ==
    \/ \E s \in Sessions, d \in TickSteps :
          /\ s # MainSession => AttemptsOf(s) < MaxSideAttempts
          /\ Receive(s, ValidChatFrame, d)
    \/ \E s \in Sessions : RLExec(s)
    \/ \E s \in Sessions : RLOldest(s)
    \/ \E s \in Sessions : DispatchAfterRateLimit(s)

SpecRate == InitRate /\ [][NextRate]_vars

(* ------------------- failing collaborators: SpecFault ----------------- *)

\* variant: the exception is not caught and the consumer stops
RaiseUncaught(s) ==
    /\ outbox' = outbox
    /\ self' = SetOf(s, [pc |-> "closed"] @@ NoLocals)

\* receive(): an exception leaving _dispatch() is caught by
\* "except Exception" and reported as the generic error frame
Raise(s) ==
    /\ outbox' = Send(s, ErrorFrame(ErrUnexpected))
    /\ self' = SetOf(s, Return)

\* check_rate_limit(): the pipeline raises, because Redis cannot be reached
\* (nothing applied) or because the reply is lost after EXEC ran (applied)
RLExecFails(s, applied) ==
    /\ self[s].pc = "rl_exec"
    /\ LET key == RateLimitKey(self[s].user)
           current_time == self[s].current_time
           window_start == current_time - WindowTicks
           z == ZAdd(ZRemRangeByScore(LiveZset(key), 0, window_start), current_time)
       IN  IF applied
           THEN /\ zsets' = [zsets EXCEPT ![key] = z]
                /\ expire_at' = [expire_at EXCEPT ![key] = clock + WindowTicks]
                /\ rl_log' = rl_log (+) SetToBag({[user |-> self[s].user,
                                                    ts |-> current_time,
                                                    allowed |-> FALSE]})
           ELSE UNCHANGED <<zsets, expire_at, rl_log>>
    /\ Raise(s)
    /\ UNCHANGED <<clock, conversations, messages, next_id, groups, inbox,
                   frames_left>>

\* check_rate_limit(): the separate ZRANGE raises
RLOldestFails(s) ==
    /\ self[s].pc = "rl_oldest"
    /\ Raise(s)
    /\ UNCHANGED <<clock, zsets, expire_at, rl_log, conversations, messages, next_id,
                   groups, inbox, frames_left>>

\* save_message(): the insert raises for a reason of the database; the
\* exception is caught there and None returned
SaveFails(s) ==
    /\ self[s].pc = "rl_done"
    /\ ~NotAllowed(self[s].is_allowed)
    /\ ~IsSelfMessage(GetRecipientId(self[s].conversation, self[s].user), self[s].user)
    /\ outbox' = Send(s, ErrorFrame(ErrSaveFailed))
    /\ self' = SetOf(s, Return)
    /\ UNCHANGED <<clock, zsets, expire_at, rl_log, conversations, messages, next_id,
                   groups, inbox, frames_left>>

\* _dispatch(): group_send raises; with the one Redis host of the channel
\* layer the publish is one script, which has run (delivered) or has not
GroupSendFails(s, delivered) ==
    /\ self[s].pc = "group_send"
    /\ inbox' = [t \in Sessions |->
                    IF delivered /\ t \in GroupChannels(self[s].room_group_name)
                    THEN Append(inbox[t], ChatEvent(self[s].message))
                    ELSE inbox[t]]
    /\ Raise(s)
    /\ UNCHANGED <<clock, zsets, expire_at, rl_log, conversations, messages, next_id,
                   groups, frames_left>>

\* Both participants of conversation 1 are connected, u2 on the first
\* session and u1, whose window is full, on the other.
InitFault ==
    /\ clock = RATE_LIMIT_MESSAGES + 1
    /\ zsets = [k \in Users |-> IF k = "u1" THEN RecentStamps(RATE_LIMIT_MESSAGES)
                                ELSE {}]
    /\ expire_at = [k \in Users |-> IF k = "u1"
                                    THEN RATE_LIMIT_MESSAGES + WindowTicks ELSE 0]
    /\ rl_log = SetToBag({[user |-> "u1", ts |-> t, allowed |-> TRUE] :
                              t \in RecentStamps(RATE_LIMIT_MESSAGES)})
    /\ conversations = InitialConversations
    /\ messages = <<>>
    /\ next_id = 1
    /\ self = [s \in Sessions |->
                  ConnectedConsumer(IF s = MainSession THEN "u2" ELSE "u1")]
    /\ groups = [c \in ConversationIds |-> IF c = 1 THEN Sessions ELSE {}]
    /\ inbox = [s \in Sessions |-> <<>>]
    /\ outbox = [s \in Sessions |-> <<>>]
    /\ frames_left = MaxFrames

NextFault ==
    \/ \E s \in Sessions, frame \in InboundFrames, d \in {0, 1} :
          Receive(s, frame, d)
    \/ \E s \in Sessions : RLExec(s)
    \/ \E s \in Sessions : RLOldest(s)
    \/ \E s \in Sessions : DispatchAfterRateLimit(s)
    \/ \E s \in Sessions : GroupSend(s)
    \/ \E s \in Sessions : chat_message(s)
    \/ \E s \in Sessions : Disconnect(s)
    \/ \E s \in Sessions, applied \in BOOLEAN : RLExecFails(s, applied)
    \/ \E s \in Sessions : RLOldestFails(s)
    \/ \E s \in Sessions : SaveFails(s)
    \/ \E s \in Sessions, delivered \in BOOLEAN : GroupSendFails(s, delivered)

SpecFault == InitFault /\ [][NextFault]_vars

(* -------------------- starting conversations: SpecStart --------------- *)

\* bound: the rows of chat_conversation that SpecStart lets exist
MaxConversations == 4

\* a listing id that no row of properties_property has
NoProperty == "p0"

\* the id of the next Conversation row (SpecStart deletes no row)
NextConversationId ==
    1 + (CHOOSE n \in {c.id : c \in conversations} :
            \A c \in conversations : c.id <= n)

\* unique_together = ("property", "participant_one", "participant_two"):
\* no row holds this triple yet
UniqueTogether(prop, one, two) ==
    ~\E c \in conversations : /\ c.property = prop
                              /\ c.participant_one = one
                              /\ c.participant_two = two

\* the table after inserting the row (prop, one, two)
InsertConversation(prop, one, two) ==
    conversations \cup {[id |-> NextConversationId, property |-> prop,
                         participant_one |-> one, participant_two |-> two,
                         updated_at |-> clock]}

\* Conversation.objects.get_or_create(property, participant_one,
\* participant_two): the row with this triple if there is one, else an
\* insert; the insert of a call that lost a race fails the unique constraint
\* and the call returns the winner's row, so the call acts as one step
GetOrCreate(prop, one, two) ==
    IF UniqueTogether(prop, one, two)
    THEN InsertConversation(prop, one, two)
    ELSE conversations

\* start_conversation(request, property_id), for the request of user
StartConversation(user, prop) ==
    /\ Cardinality(conversations) < MaxConversations
    /\ conversations' =
          IF ~IsAuthenticated(user) THEN conversations          \* @login_required
          ELSE IF prop \notin Properties THEN conversations     \* 404
          ELSE IF Owner(prop) = user THEN conversations         \* 403
          ELSE GetOrCreate(prop, Owner(prop), user)
    /\ UNCHANGED <<clock, zsets, expire_at, rl_log, messages, next_id, self, groups,
                   inbox, outbox, frames_left>>

\* Conversation.objects.create(property, participant_one, participant_two),
\* as the admin site and the fixtures of the tests do: any triple the unique
\* constraint admits
CreateConversation(prop, one, two) ==
    /\ Cardinality(conversations) < MaxConversations
    /\ UniqueTogether(prop, one, two)
    /\ conversations' = InsertConversation(prop, one, two)
    /\ UNCHANGED <<clock, zsets, expire_at, rl_log, messages, next_id, self, groups,
                   inbox, outbox, frames_left>>

NextStart ==
    \/ \E user \in Users \cup {Anonymous}, prop \in Properties \cup {NoProperty} :
          StartConversation(user, prop)
    \/ \E prop \in Properties, one \in Users, two \in Users :
          CreateConversation(prop, one, two)

\* from the tables of Init
SpecStart == Init /\ [][NextStart]_vars

(* ---------------------- reading messages: SpecRead -------------------- *)

\* variant: a view that marks every unread message of the conversation
MarksReadAnyone(row, user) == ~row.is_read

\* messages.filter(is_read=False).exclude(sender=user): the rows that the
\* page view of user marks as read
MarksRead(row, user) == ~row.is_read /\ row.sender # user

\* conversation.messages...update(is_read=True), for the view of user
MarkedRead(cid, user) ==
    [j \in 1..Len(messages) |->
        IF messages[j].conversation = cid /\ MarksRead(messages[j], user)
        THEN [messages[j] EXCEPT !.is_read = TRUE]
        ELSE messages[j]]

\* conversation_detail(request, conversation_id), for the request of user
ConversationDetail(user, cid) ==
    /\ messages' =
          IF ~IsAuthenticated(user) THEN messages               \* @login_required
          ELSE IF ConversationRows(cid) = {} THEN messages      \* 404
          ELSE IF ~CheckUserIsParticipant(cid, user) THEN messages   \* 403
          ELSE MarkedRead(cid, user)
    /\ UNCHANGED <<clock, zsets, expire_at, rl_log, conversations, next_id, self,
                   groups, inbox, outbox, frames_left>>

\* The two participants of conversation 1 have a session each, nobody has
\* sent anything yet; the few frames of a run stay below the rate limit.
InitRead ==
    /\ clock = 0
    /\ zsets = [k \in Users |-> {}]
    /\ expire_at = [k \in Users |-> 0]
    /\ rl_log = EmptyBag
    /\ conversations = InitialConversations
    /\ messages = <<>>
    /\ next_id = 1
    /\ self = [s \in Sessions |->
                  ConnectedConsumer(IF s = MainSession THEN "u2" ELSE "u1")]
    /\ groups = [c \in ConversationIds |-> IF c = 1 THEN Sessions ELSE {}]
    /\ inbox = [s \in Sessions |-> <<>>]
    /\ outbox = [s \in Sessions |-> <<>>]
    /\ frames_left = MaxFrames

\* the frames SpecRead's sessions send: a valid chat message, a blank one,
\* a ping and a malformed frame
ReadFrames ==
    { ValidChatFrame,
      Frame("object", "chat_message", "str", TxtBlank),
      Frame("object", "ping", "absent", <<>>),
      Frame("malformed", "absent", "absent", <<>>) }

NextRead ==
    \/ \E s \in Sessions, frame \in ReadFrames, d \in {0, 1} :
          Receive(s, frame, d)
    \/ \E s \in Sessions : RLExec(s)
    \/ \E s \in Sessions : DispatchAfterRateLimit(s)
    \/ \E s \in Sessions : GroupSend(s)
    \/ \E s \in Sessions : chat_message(s)
    \/ \E s \in Sessions : Disconnect(s)
    \/ \E user \in Users \cup {Anonymous}, cid \in ConversationIds :
          ConversationDetail(user, cid)

SpecRead == InitRead /\ [][NextRead]_vars

(* --------------------- conversation list: SpecList -------------------- *)

\* filter(Q(participant_one=user) | Q(participant_two=user))
ConversationsOf(user) ==
    {c \in conversations : c.participant_one = user \/ c.participant_two = user}

\* order_by("-updated_at"): row c is listed before row d
ListedBefore(c, d) == c.updated_at > d.updated_at

\* conversation_list(request): the rows that can come first in the list of
\* user (rows saved at the same instant come in either order)
ListHeads(user) ==
    {c \in ConversationsOf(user) :
        \A d \in ConversationsOf(user) : ~ListedBefore(d, c)}

\* a later conversation of u2, with the owner of listing p2
LaterConversation ==
    [id |-> 3, property |-> "p2", participant_one |-> "u3",
     participant_two |-> "u2", updated_at |-> 0]

\* a consumer of user u that completed connect() for LaterConversation
ConnectedConsumerLater(u) ==
    [conversation_id |-> LaterConversation.id,
     room_group_name |-> LaterConversation.id,
     conversation |-> LaterConversation] @@ ConnectedConsumer(u)

\* u2 takes part in two conversations and has a session in each: the main
\* session in conversation 1, the other in the later conversation 3.
InitList ==
    /\ clock = 1
    /\ zsets = [k \in Users |-> {}]
    /\ expire_at = [k \in Users |-> 0]
    /\ rl_log = EmptyBag
    /\ conversations = InitialConversations \cup {LaterConversation}
    /\ messages = <<>>
    /\ next_id = 1
    /\ self = [s \in Sessions |->
                  IF s = MainSession THEN ConnectedConsumer("u2")
                  ELSE ConnectedConsumerLater("u2")]
    /\ groups = [c \in ConversationIds |->
                    IF c = 1 THEN {MainSession}
                    ELSE IF c = LaterConversation.id THEN Sessions \ {MainSession}
                    ELSE {}]
    /\ inbox = [s \in Sessions |-> <<>>]
    /\ outbox = [s \in Sessions |-> <<>>]
    /\ frames_left = MaxFrames

NextList ==
    \/ \E s \in Sessions, frame \in ReadFrames, d \in {0, 1} :
          Receive(s, frame, d)
    \/ \E s \in Sessions : RLExec(s)
    \/ \E s \in Sessions : DispatchAfterRateLimit(s)
    \/ \E s \in Sessions : GroupSend(s)
    \/ \E s \in Sessions : chat_message(s)
    \/ \E s \in Sessions : Disconnect(s)

SpecList == InitList /\ [][NextList]_vars

(* -------------------- retry after cooldown: SpecCool ------------------ *)

\* bound: the attempts of a run of SpecCool
MaxCoolAttempts == 3

\* the timestamps of a user who has sent n messages, one every three ticks
SpacedStamps(n) == {3 * i : i \in 1..n}

\* the last frame session s has received
LastFrame(s) == outbox[s][Len(outbox[s])]

\* a client that was told to wait: its last frame is a rate_limit_error, and
\* it sends its next chat message cooldown_seconds after the rejected attempt
RetryAfterCooldown(s) ==
    /\ outbox[s] # <<>>
    /\ LastFrame(s).type = "rate_limit_error"
    /\ LastFrame(s).cooldown_seconds > 0
    /\ Receive(s, ValidChatFrame,
               self[s].current_time + LastFrame(s).cooldown_seconds * TicksPerSecond
                   - clock)

\* Every session is a connected session of u1 in conversation 1, whose row
\* was deleted after the handshakes (no attempt stores a message); u1 has
\* just sent RATE_LIMIT_MESSAGES messages, one every three ticks.
InitCool ==
    /\ clock = 3 * RATE_LIMIT_MESSAGES + 1
    /\ zsets = [k \in Users |-> IF k = "u1" THEN SpacedStamps(RATE_LIMIT_MESSAGES)
                                ELSE {}]
    /\ expire_at = [k \in Users |-> IF k = "u1"
                                    THEN 3 * RATE_LIMIT_MESSAGES + WindowTicks ELSE 0]
    /\ rl_log = SetToBag({[user |-> "u1", ts |-> t, allowed |-> TRUE] :
                              t \in SpacedStamps(RATE_LIMIT_MESSAGES)})
    /\ conversations = InitialConversations \ {GetConversationAtStart(1)}
    /\ messages = <<>>
    /\ next_id = 1
    /\ self = [s \in Sessions |-> ConnectedConsumer("u1")]
    /\ groups = [c \in ConversationIds |-> IF c = 1 THEN Sessions ELSE {}]
    /\ inbox = [s \in Sessions |-> <<>>]
    /\ outbox = [s \in Sessions |-> <<>>]
    /\ frames_left = MaxCoolAttempts

NextCool ==
    \/ \E s \in Sessions, d \in {0, 1} : Receive(s, ValidChatFrame, d)
    \/ \E s \in Sessions : RetryAfterCooldown(s)
    \/ \E s \in Sessions : RLExec(s)
    \/ \E s \in Sessions : RLOldest(s)
    \/ \E s \in Sessions : DispatchAfterRateLimit(s)

SpecCool == InitCool /\ [][NextCool]_vars

(* ------------------- quota of failed sends: SpecQuota ----------------- *)

\* chat messages that _dispatch refuses before check_rate_limit
EarlyRejectedFrames ==
    { Frame("object", "chat_message", "str", TxtBlank),
      Frame("object", "chat_message", "str", TxtTooLong) }

\* SpecRate's sessions, of which the side sessions also send messages that
\* fail the content checks; every admitted attempt fails at save_message
\* (InitRate)
NextQuota ==
    \/ \E s \in Sessions, d \in TickSteps :
          /\ s # MainSession => AttemptsOf(s) < MaxSideAttempts
          /\ Receive(s, ValidChatFrame, d)
    \/ \E s \in Sessions \ {MainSession}, frame \in EarlyRejectedFrames :
          /\ AttemptsOf(s) < MaxSideAttempts
          /\ Receive(s, frame, 0)
    \/ \E s \in Sessions : RLExec(s)
    \/ \E s \in Sessions : RLOldest(s)
    \/ \E s \in Sessions : DispatchAfterRateLimit(s)

SpecQuota == InitRate /\ [][NextQuota]_vars

(* ----------------------- sanitized texts: SpecClean ------------------- *)

\* 'AT&T'
TxtAmp == << Run("ch", 2), Run("amp", 1), Run("ch", 1) >>

\* MAX_MESSAGE_LENGTH times '&'
TxtAmpMax == << Run("amp", MAX_MESSAGE_LENGTH) >>

\* '<b></b>'
TxtMarkupOnly == << Run("tag", 7) >>

\* '<b>Hello</b>'
TxtBold == << Run("tag", 3), Run("ch", 5), Run("tag", 4) >>

CleanTexts == {TxtHello, TxtXss, TxtAmp, TxtAmpMax, TxtMarkupOnly, TxtBold}

\* the frames SpecClean's sessions send: chat messages with markup or '&'
CleanFrames == { Frame("object", "chat_message", "str", t) : t \in CleanTexts }

\* from InitRead: the two participants of conversation 1, a session each
NextClean ==
    \/ \E s \in Sessions, frame \in CleanFrames, d \in {0, 1} :
          Receive(s, frame, d)
    \/ \E s \in Sessions : RLExec(s)
    \/ \E s \in Sessions : DispatchAfterRateLimit(s)
    \/ \E s \in Sessions : GroupSend(s)
    \/ \E s \in Sessions : chat_message(s)

SpecClean == InitRead /\ [][NextClean]_vars

(* --------------------------- claims: helpers -------------------------- *)

\* session s receives one more frame, f
Gets(s, f) == outbox'[s] = Append(outbox[s], f)

\* positions of the 'message' frames for Message id in what s has received
FramesFor(s, id) ==
    {i \in 1..Len(outbox[s]) :
        outbox[s][i].type = "message" /\ outbox[s][i].message_id = id}

\* positions of the events for Message id waiting on the channel of s
EventsFor(s, id) == {i \in 1..Len(inbox[s]) : inbox[s][i].message_id = id}

Has(s, f) == \E i \in 1..Len(outbox[s]) : outbox[s][i] = f

HasType(s, type) == \E i \in 1..Len(outbox[s]) : outbox[s][i].type = type

\* session s completed its handshake and has not disconnected
Connected(s) == self[s].accepted /\ self[s].pc # "closed"

\* the conversation row session s is bound to is gone
ConversationGone(s) == ConversationRows(self[s].conversation_id) = {}

\* frame is a chat message whose "message" is a string
IsChatText(frame) ==
    /\ frame.json = "object"
    /\ frame.type \in {"absent", "chat_message"}
    /\ frame.message_kind = "str"

\* session s is at the return of check_rate_limit() with an admitted
\* message for the other participant of a conversation that still exists
AboutToSave(s) ==
    /\ self[s].pc = "rl_done"
    /\ self[s].is_allowed
    /\ self[s].conversation.participant_one # self[s].conversation.participant_two
    /\ ~ConversationGone(s)

(* ------------------------ claims: rate limiter ------------------------ *)

RECURSIVE CopiesOf(_, _)
\* the number of entries of a bag that lie in a set of its elements
CopiesOf(S, bag) ==
    IF S = {} THEN 0
    ELSE LET e == CHOOSE x \in S : TRUE
         IN  CopiesIn(e, bag) + CopiesOf(S \ {e}, bag)

\* the executed attempts of user u whose timestamp t has lo < t <= hi
AttemptsIn(u, lo, hi) ==
    {e \in BagToSet(rl_log) : e.user = u /\ lo < e.ts /\ e.ts <= hi}

Admitted(S) == {e \in S : e.allowed}

\* C2: for every identity and every 60-second interval (lo, hi], at most
\* RATE_LIMIT_MESSAGES attempts of that identity with a timestamp in the
\* interval are admitted, whatever the interleaving of the sessions and
\* whatever the timestamps, equal ones included.
C2_AtMostTenAdmittedPerWindow ==
    \A e \in BagToSet(rl_log) :
        CopiesOf(Admitted(AttemptsIn(e.user, e.ts - WindowTicks, e.ts)), rl_log)
            <= RATE_LIMIT_MESSAGES

\* C3: an attempt of an identity with fewer than 10 recorded attempts in the
\* preceding 60 seconds is admitted, and an attempt that follows 10 or more
\* recorded attempts inside the same 60-second window (the 11th) is rejected
\* and answered by a rate_limit_error frame with status_code 429.
C3_AdmitBelowTenRejectEleventh ==
    [][\A s \in Sessions :
        /\ (self[s].pc = "rl_exec" /\ self'[s].pc # "rl_exec") =>
              LET prior == CopiesOf(AttemptsIn(self[s].user,
                                               self[s].current_time - WindowTicks,
                                               MaxClock), rl_log)
              IN  /\ prior < RATE_LIMIT_MESSAGES =>
                        self'[s].pc = "rl_done" /\ self'[s].is_allowed
                  /\ prior >= RATE_LIMIT_MESSAGES => self'[s].pc = "rl_oldest"
        /\ (self[s].pc = "rl_done" /\ ~self[s].is_allowed /\ self'[s].pc = "idle") =>
              /\ Len(outbox'[s]) = Len(outbox[s]) + 1
              /\ outbox'[s][Len(outbox'[s])].type = "rate_limit_error"
              /\ outbox'[s][Len(outbox'[s])].status_code = STATUS_TOO_MANY
      ]_vars

\* C4: every rate_limit_error frame carries a cooldown_seconds c with
\* 0 < c <= 61, also when other sessions of the identity add or expire
\* entries between the pipeline and the read of the oldest entry.
C4_CooldownInRange ==
    \A s \in Sessions : \A i \in 1..Len(outbox[s]) :
        outbox[s][i].type = "rate_limit_error" =>
            /\ 0 < outbox[s][i].cooldown_seconds
            /\ outbox[s][i].cooldown_seconds <= RATE_LIMIT_WINDOW + 1

(* ---------------------- claims: message pipeline ---------------------- *)

\* C1, the send step: an admitted message for the other participant of an
\* existing conversation is stored as exactly one new row, holding the
\* sanitized text, the conversation, the sender, and is_read = FALSE.
C1_StoredOnce ==
    \A s \in Sessions :
        (AboutToSave(s) /\ self'[s] # self[s]) =>
            /\ Len(messages') = Len(messages) + 1
            /\ SubSeq(messages', 1, Len(messages)) = messages
            /\ LET row == messages'[Len(messages')]
               IN  /\ row.content = NhClean(self[s].message_content)
                   /\ row.conversation = self[s].conversation_id
                   /\ row.sender = self[s].user
                   /\ row.is_read = FALSE
                   /\ \A i \in 1..Len(messages) : messages[i].id # row.id
                   /\ self'[s].pc = "group_send"
                   /\ self'[s].message = row

\* C1, the publish step: the event of the stored row is queued exactly once
\* for the sender's session and for every connected session of the
\* conversation, and for no session of another conversation.
C1_PublishedOnce ==
    \A s \in Sessions :
        (self[s].pc = "group_send" /\ self'[s] # self[s]) =>
            \A t \in Sessions :
                IF (t = s \/ Connected(t))
                   /\ self[t].conversation_id = self[s].conversation_id
                THEN /\ inbox'[t] = Append(inbox[t], ChatEvent(self[s].message))
                     /\ ChatEvent(self[s].message).message = self[s].message.content
                ELSE Connected(t) => inbox'[t] = inbox[t]

\* C1, the delivery step: a session that takes an event off its channel
\* receives one 'message' frame carrying the event's text.
C1_Forwarded ==
    \A t \in Sessions :
        (inbox[t] # <<>> /\ inbox'[t] = Tail(inbox[t]) /\ self'[t].pc # "closed") =>
            /\ Len(outbox'[t]) = Len(outbox[t]) + 1
            /\ outbox'[t][Len(outbox'[t])].type = "message"
            /\ outbox'[t][Len(outbox'[t])].message = Head(inbox[t]).message
            /\ outbox'[t][Len(outbox'[t])].message_id = Head(inbox[t]).message_id

\* C1, no duplicates: a session never holds more than one frame or pending
\* event for one Message, and what it holds carries the stored row's text.
C1_AtMostOnce ==
    \A t \in Sessions : \A id \in 1..(next_id - 1) :
        /\ Cardinality(FramesFor(t, id)) + Cardinality(EventsFor(t, id)) <= 1
        /\ \A i \in FramesFor(t, id) : \A j \in 1..Len(messages) :
               messages[j].id = id =>
                   /\ outbox[t][i].message = messages[j].content
                   /\ outbox[t][i].sender_id = messages[j].sender
                   /\ self[t].conversation_id = messages[j].conversation

\* C1: a valid, admitted chat message of a participant is stored exactly once
\* (sanitized, unread) and the sender's session and every connected session of
\* the other participant each get it in exactly one 'message' frame.
C1_ValidMessageStoredAndDeliveredOnce ==
    /\ [][C1_StoredOnce /\ C1_PublishedOnce /\ C1_Forwarded]_vars
    /\ []C1_AtMostOnce

\* two sessions, the sender's and the other participant's, each hold the one
\* frame of the stored, still unread, sanitized row
C1_Witness ==
    \E s, t \in Sessions :
        /\ self[s].user = "u2" /\ self[t].user = "u1"
        /\ Connected(s) /\ Connected(t)
        /\ Len(messages) = 1
        /\ messages[1].content = NhClean(Strip(TxtXss))
        /\ ~messages[1].is_read
        /\ Cardinality(FramesFor(s, messages[1].id)) = 1
        /\ Cardinality(FramesFor(t, messages[1].id)) = 1
        /\ inbox[s] = <<>> /\ inbox[t] = <<>>

(* ------------------- claims: scope of the rate limiter ---------------- *)

\* session s executes the pipeline of check_rate_limit in this step
RunsPipeline(s) == self[s].pc = "rl_exec" /\ self'[s].pc # "rl_exec"

\* C5, per step: the window of identity k changes only when a session of k
\* executes the pipeline, which records that session's timestamp in the
\* window of its own identity, whichever of the identity's sessions it is.
C5_WindowChangesOnlyByOwner ==
    /\ \A k \in Users :
          (zsets'[k] # zsets[k] \/ expire_at'[k] # expire_at[k]) =>
              \E s \in Sessions : self[s].user = k /\ RunsPipeline(s)
    /\ \A s \in Sessions :
          RunsPipeline(s) =>
              /\ self[s].current_time \in zsets'[self[s].user]
              /\ zsets'[self[s].user] \subseteq
                     LiveZset(self[s].user) \cup {self[s].current_time}
    /\ \A s \in Sessions :
          (self[s].pc \in {"new", "get_conversation", "group_add", "accept",
                           "closing", "closed"}
           \/ self'[s].pc = "closed") =>
              (self'[s] # self[s] => zsets' = zsets /\ expire_at' = expire_at)

\* C5: rate limiting is per identity, not per socket: an identity's window is
\* changed only by that identity's own attempts, all its sessions use the one
\* window, and connect and disconnect leave every window unchanged.
C5_PerIdentityWindow == [][C5_WindowChangesOnlyByOwner]_vars

\* two sessions of u2, one of them since disconnected, have both recorded
\* an attempt in u2's window while u1's full window is as it was
C5_Witness ==
    \E s, t \in Sessions :
        /\ s # t
        /\ self[s].user = "u2" /\ self[t].user = "u2"
        /\ self[s].current_time # self[t].current_time
        /\ {self[s].current_time, self[t].current_time} \subseteq zsets["u2"]
        /\ self[t].pc = "closed"
        /\ zsets["u1"] = RecentStamps(RATE_LIMIT_MESSAGES)

\* session s takes a step of an attempt the rate limiter rejects
RejectedStep(s) ==
    /\ self'[s] # self[s]
    /\ \/ self[s].pc = "rl_exec" /\ self'[s].pc = "rl_oldest"
       \/ self[s].pc = "rl_oldest"
       \/ self[s].pc = "rl_done" /\ ~self[s].is_allowed

\* C6, per step: a rejected attempt leaves the stored messages, every
\* channel and every other session's frames as they are, and ends with
\* one rate_limit_error frame for the sender and the handler's return.
C6_RejectedStepEffect ==
    \A s \in Sessions :
        RejectedStep(s) =>
            /\ messages' = messages
            /\ next_id' = next_id
            /\ inbox' = inbox
            /\ \A t \in Sessions \ {s} : outbox'[t] = outbox[t]
            /\ IF self[s].pc = "rl_done"
               THEN /\ Len(outbox'[s]) = Len(outbox[s]) + 1
                    /\ SubSeq(outbox'[s], 1, Len(outbox[s])) = outbox[s]
                    /\ outbox'[s][Len(outbox'[s])].type = "rate_limit_error"
                    /\ self'[s].pc = "idle"
               ELSE /\ outbox'[s] = outbox[s]
                    /\ self'[s].pc \in {"rl_oldest", "rl_done"}
                    /\ self'[s].pc = "rl_done" => ~self'[s].is_allowed

\* C6: a chat message the rate limiter rejects is never stored and never
\* broadcast, and its sender receives exactly one rate_limit_error frame.
C6_RejectedNeverStoredNorBroadcast == [][C6_RejectedStepEffect]_vars

\* u1, over the limit, got a rate_limit_error frame on a session while the
\* other participant's session is connected and has received nothing
C6_Witness ==
    \E s, t \in Sessions :
        /\ self[s].user = "u1" /\ self[t].user = "u2"
        /\ Connected(s) /\ Connected(t)
        /\ self[s].pc = "idle"
        /\ HasType(s, "rate_limit_error")
        /\ outbox[t] = <<>> /\ inbox[t] = <<>>
        /\ messages = <<>>

(* ---------------------- claims: refused handshakes -------------------- *)

\* C7, the connect step: no identity gives close code 4001; an identity that
\* is no participant of the conversation, or whose conversation has no row,
\* gives close code 4003.
C7_RefusedAtConnect ==
    \A s \in Sessions :
        (self[s].pc = "new" /\ self'[s].pc # "new") =>
            /\ self'[s].user = Anonymous =>
                  self'[s].pc = "closing" /\ self'[s].close_code = CLOSE_UNAUTHENTICATED
            /\ (/\ self'[s].user # Anonymous
                /\ ~\E c \in conversations :
                       /\ c.id = self'[s].conversation_id
                       /\ self'[s].user \in {c.participant_one, c.participant_two}) =>
                  self'[s].pc = "closing" /\ self'[s].close_code = CLOSE_FORBIDDEN

\* C7, ever after: a session closed with 4001 or 4003 was never accepted, is
\* in no group, has been sent no frame, and handles none.
C7_RefusedStaysOut ==
    \A s \in Sessions :
        self[s].close_code \in {CLOSE_UNAUTHENTICATED, CLOSE_FORBIDDEN} =>
            /\ ~self[s].accepted
            /\ self[s].pc \in {"closing", "closed"}
            /\ \A c \in ConversationIds : s \notin groups[c]
            /\ outbox[s] = <<>>
            /\ inbox[s] = <<>>
            /\ self[s].current_time = -1

\* C7: an unauthenticated attempt is closed with 4001, an attempt of a
\* non-participant (or for a missing conversation) with the different code
\* 4003; neither is accepted, joins the group, or exchanges a frame.
C7_RefusedHandshakes ==
    /\ CLOSE_UNAUTHENTICATED # CLOSE_FORBIDDEN
    /\ [][C7_RefusedAtConnect]_vars
    /\ []C7_RefusedStaysOut

\* one attempt was closed with 4001, another, of u3 for the conversation of
\* u1 and u2, with 4003
C7_Witness ==
    \E s, t \in Sessions :
        /\ self[s].user = Anonymous /\ self[s].close_code = CLOSE_UNAUTHENTICATED
        /\ self[t].user = "u3" /\ self[t].conversation_id = 1
        /\ self[t].close_code = CLOSE_FORBIDDEN
        /\ self[s].pc = "closed" /\ self[t].pc = "closed"

(* ------------------------ claims: length limit ------------------------ *)

\* the trimmed length of the text of a chat frame
TrimmedLen(frame) == TextLen(Strip(frame.message))

\* C8, the receive step: a chat message whose trimmed text is longer than
\* 5000 characters is answered with the error naming 5000 and changes
\* neither rows, channels nor windows; one of exactly 5000 passes the checks.
C8_LengthCheck ==
    \A s \in Sessions :
      (self[s].pc = "idle" /\ frames_left' # frames_left) =>
        \A frame \in {f \in InboundFrames :
                         IsChatText(f) /\ TrimmedLen(f) >= MAX_MESSAGE_LENGTH} :
          Receive(s, frame, clock' - clock) =>
            /\ TrimmedLen(frame) > MAX_MESSAGE_LENGTH =>
                  /\ Gets(s, ErrorFrame(ErrTooLong))
                  /\ messages' = messages /\ next_id' = next_id
                  /\ inbox' = inbox
                  /\ zsets' = zsets
                  /\ self'[s].pc = "idle"
            /\ TrimmedLen(frame) = MAX_MESSAGE_LENGTH =>
                  /\ outbox' = outbox
                  /\ self'[s].pc = "rl_exec"
                  /\ TextLen(self'[s].message_content) = MAX_MESSAGE_LENGTH

\* C8, the send step: an admitted text of exactly 5000 characters for the
\* other participant is stored whole and then published to the group.
C8_MaxLengthStored ==
    \A s \in Sessions :
        /\ (/\ AboutToSave(s) /\ self'[s] # self[s]
            /\ TextLen(self[s].message_content) = MAX_MESSAGE_LENGTH) =>
              /\ Len(messages') = Len(messages) + 1
              /\ TextLen(messages'[Len(messages')].content) = MAX_MESSAGE_LENGTH
              /\ self'[s].pc = "group_send"
        /\ (self[s].pc = "group_send" /\ self'[s] # self[s]) =>
              inbox'[s] = Append(inbox[s], ChatEvent(self[s].message))

\* C8: a chat message of more than 5000 characters after trimming is not
\* stored, not broadcast, and answered with an error mentioning 5000; one of
\* exactly 5000 characters is accepted, stored and broadcast.
C8_LengthLimit == [][C8_LengthCheck /\ C8_MaxLengthStored]_vars

\* a session was refused a 5001-character text and then got its own
\* 5000-character message back as a 'message' frame, the row being stored
C8_Witness ==
    \E s \in Sessions :
        /\ Len(outbox[s]) = 2
        /\ outbox[s][1] = ErrorFrame(ErrTooLong)
        /\ outbox[s][2].type = "message"
        /\ TextLen(outbox[s][2].message) = MAX_MESSAGE_LENGTH
        /\ Len(messages) = 1
        /\ TextLen(messages[1].content) = MAX_MESSAGE_LENGTH

(* --------------------- claims: validation errors ---------------------- *)

\* frame is a chat message with a text or with no "message" key
IsChatFrame(frame) ==
    /\ frame.json = "object"
    /\ frame.type \in {"absent", "chat_message"}
    /\ frame.message_kind \in {"absent", "str"}

\* the trimmed text of a chat frame
Trimmed(frame) == IF frame.message_kind = "absent" THEN <<>> ELSE Strip(frame.message)

\* the conversation session s is bound to has one user on both sides
SelfConversation(s) ==
    /\ self[s].conversation.id # 0
    /\ self[s].conversation.participant_one = self[s].conversation.participant_two

\* session s takes a step of an attempt that ends with "Cannot send
\* messages to yourself": the admitting pipeline, or the rejection itself
SelfRejectedStep(s) ==
    /\ SelfConversation(s)
    /\ self'[s] # self[s]
    /\ \/ self[s].pc = "rl_exec" /\ self'[s].pc = "rl_done"
       \/ self[s].pc = "rl_done" /\ self[s].is_allowed

\* the receive step of an empty or too long chat message: one error frame,
\* and no row, channel or window changes
C9_ContentRejection ==
    \A s \in Sessions :
      (self[s].pc = "idle" /\ frames_left' # frames_left) =>
        \A frame \in {f \in InboundFrames :
                         /\ IsChatFrame(f)
                         /\ \/ Trimmed(f) = <<>>
                            \/ TextLen(Trimmed(f)) > MAX_MESSAGE_LENGTH} :
          Receive(s, frame, clock' - clock) =>
            /\ Gets(s, ErrorFrame(IF Trimmed(frame) = <<>> THEN ErrEmpty ELSE ErrTooLong))
            /\ messages' = messages /\ next_id' = next_id
            /\ inbox' = inbox
            /\ zsets' = zsets /\ expire_at' = expire_at
            /\ self' = self

HandlerPositions == {"idle", "rl_exec", "rl_oldest", "rl_done"}

\* C10, per step: on a connected session whose conversation row is gone, no
\* step of receiving or sending creates a row, publishes an event or closes
\* the session, and a message that has passed the content checks and the
\* rate limiter is answered with "Failed to save message".
C10_StepAfterDeletion ==
    \A s \in Sessions :
        (/\ Connected(s) /\ ConversationGone(s)
         /\ self[s].pc \in HandlerPositions
         /\ self'[s] # self[s] \/ outbox'[s] # outbox[s]
         /\ self'[s].pc # "closed") =>
            /\ messages' = messages /\ next_id' = next_id
            /\ \A t \in Sessions \ {s} : inbox'[t] = inbox[t]
            /\ inbox'[s] = inbox[s] \/ (inbox[s] # <<>> /\ inbox'[s] = Tail(inbox[s]))
            /\ self'[s].accepted
            /\ self'[s].pc \in HandlerPositions
            /\ s \in groups'[self[s].room_group_name]
            /\ (/\ self[s].pc = "rl_done" /\ self[s].is_allowed
                /\ ~SelfConversation(s)) =>
                  /\ Gets(s, ErrorFrame(ErrSaveFailed))
                  /\ self'[s].pc = "idle"

\* C10: once the conversation of a connected session is deleted, every later
\* chat message sent on it (valid and admitted, so that it reaches the
\* insert) yields "Failed to save message", creates no row, broadcasts
\* nothing, and leaves the session connected.
C10_SaveFailsAfterDeletion == [][C10_StepAfterDeletion]_vars

\* u2's session, connected before conversation 1 was deleted, has sent two
\* messages since: both were answered "Failed to save message", no row
\* exists, and the session still waits for frames
C10_Witness ==
    \E s \in Sessions :
        /\ self[s].user = "u2"
        /\ Connected(s) /\ ConversationGone(s)
        /\ self[s].pc = "idle"
        /\ outbox[s] = << ErrorFrame(ErrSaveFailed), ErrorFrame(ErrSaveFailed) >>
        /\ messages = <<>>

(* ------------------ claims: failures after the handshake -------------- *)

RunningPositions == {"rl_exec", "rl_oldest", "rl_done", "group_send"}

\* session s, connected, takes a step of handling an inbound frame: it
\* begins with the frame or continues from where the handler was waiting
HandlerStep(s) ==
    /\ Connected(s)
    /\ \/ self[s].pc \in RunningPositions /\ self'[s] # self[s]
       \/ /\ self[s].pc = "idle"
          /\ frames_left' # frames_left
          /\ self'[s] # self[s] \/ outbox'[s] # outbox[s]

\* the frames receive() cannot take as a chat message or a ping
BadFrames ==
    {f \in InboundFrames :
        \/ f.json # "object"
        \/ f.type \in {"absent", "chat_message"} /\ f.message_kind = "other"}

\* C11, per step: a step of handling a frame leaves the session accepted,
\* not closed and in its group; a frame that is no JSON object or has a
\* non-string message is answered with an error frame; and a handler that
\* returns has either published the message or sent its session exactly one
\* error frame.
C11_HandlerStepEffect ==
    \A s \in Sessions :
        HandlerStep(s) =>
            /\ self'[s].accepted
            /\ self'[s].close_code = 0
            /\ self'[s].pc \in RunningPositions \cup {"idle"}
            /\ s \in groups'[self[s].room_group_name]
            /\ self[s].pc = "idle" =>
                  \A frame \in BadFrames :
                      Receive(s, frame, clock' - clock) =>
                          /\ Gets(s, ErrorFrame(IF frame.json = "malformed"
                                                THEN ErrInvalidFormat
                                                ELSE ErrUnexpected))
                          /\ self' = self
            /\ (self[s].pc # "idle" /\ self'[s].pc = "idle") =>
                  \/ /\ self[s].pc = "group_send"
                     /\ inbox'[s] = Append(inbox[s], ChatEvent(self[s].message))
                     /\ outbox'[s] = outbox[s]
                  \/ /\ Len(outbox'[s]) = Len(outbox[s]) + 1
                     /\ SubSeq(outbox'[s], 1, Len(outbox[s])) = outbox[s]
                     /\ outbox'[s][Len(outbox'[s])].type \in {"error", "rate_limit_error"}

PingFrames == {f \in InboundFrames : f.json = "object" /\ f.type = "ping"}

\* C12, per step: receiving a ping appends one pong to the frames of the
\* session that sent it and changes nothing else: no other session's frames,
\* no row, no rate-limit window, no channel.
C12_PingEffect ==
    \A s \in Sessions :
        (self[s].pc = "idle" /\ frames_left' # frames_left) =>
            \A frame \in PingFrames :
                Receive(s, frame, clock' - clock) =>
                    /\ Gets(s, PongFrame)
                    /\ \A t \in Sessions \ {s} : outbox'[t] = outbox[t]
                    /\ messages' = messages /\ next_id' = next_id
                    /\ zsets' = zsets /\ expire_at' = expire_at /\ rl_log' = rl_log
                    /\ inbox' = inbox
                    /\ self' = self

\* C12: every ping yields exactly one pong, to its sender only, and creates
\* no row, no rate-limit entry and no broadcast, however many pings are sent
\* and whatever the state of the sender's window.
C12_PingOnlyPongs == [][C12_PingEffect]_vars

\* u1, whose window is full, has pinged twice and got two pongs; the window
\* is as it was and nothing was stored or published
C12_Witness ==
    \E s \in Sessions :
        /\ self[s].user = "u1"
        /\ outbox[s] = << PongFrame, PongFrame >>
        /\ zsets["u1"] = RecentStamps(RATE_LIMIT_MESSAGES)
        /\ Cardinality(zsets["u1"]) = RATE_LIMIT_MESSAGES
        /\ messages = <<>>
        /\ \A t \in Sessions : inbox[t] = <<>> /\ (t # s => outbox[t] = <<>>)

(* --------------------- claims: persist, then publish ------------------ *)

\* the stored row with Message id, if any
StoredRows(id) == {j \in 1..Len(messages) : messages[j].id = id}

\* C13, in every state: each event waiting on a channel and each 'message'
\* frame sent carries the id and creation time of an inserted row, and a
\* session about to publish holds the row it has inserted.
C13_EventsOfInsertedRows ==
    /\ \A t \in Sessions : \A i \in 1..Len(inbox[t]) :
          /\ inbox[t][i].message_id \in 1..(next_id - 1)
          /\ \A j \in StoredRows(inbox[t][i].message_id) :
                inbox[t][i].created_at = messages[j].created_at
    /\ \A t \in Sessions : \A i \in 1..Len(outbox[t]) :
          outbox[t][i].type = "message" =>
              /\ outbox[t][i].message_id \in 1..(next_id - 1)
              /\ \A j \in StoredRows(outbox[t][i].message_id) :
                    outbox[t][i].created_at = messages[j].created_at
    /\ \A s \in Sessions :
          IF self[s].pc = "group_send"
          THEN \E j \in 1..Len(messages) : messages[j] = self[s].message
          ELSE self[s].message = NoMessage

\* C13, per step: an event is put on a channel only by a session that has
\* inserted the row the event names, and a send whose insert did not happen
\* returns without publishing.
C13_PublishAfterInsert ==
    /\ \A t \in Sessions :
          Len(inbox'[t]) > Len(inbox[t]) =>
              \E s \in Sessions :
                  /\ self[s].pc = "group_send" /\ self'[s].pc = "idle"
                  /\ \E j \in 1..Len(messages) : messages[j] = self[s].message
                  /\ inbox'[t][Len(inbox'[t])].message_id = self[s].message.id
                  /\ inbox'[t][Len(inbox'[t])].created_at = self[s].message.created_at
                  /\ SubSeq(inbox'[t], 1, Len(inbox[t])) = inbox[t]
    /\ \A s \in Sessions :
          (self[s].pc = "rl_done" /\ self'[s] # self[s]) =>
              IF messages' = messages
              THEN self'[s].pc = "idle" /\ inbox' = inbox
              ELSE /\ self'[s].pc = "group_send"
                   /\ messages' = Append(messages, self'[s].message)
                   /\ inbox' = inbox

\* C13: persistence precedes broadcast: every published event carries the id
\* and creation time of a row inserted before the publish, and an attempt
\* whose insert fails publishes nothing.
C13_PersistBeforePublish ==
    /\ []C13_EventsOfInsertedRows
    /\ [][C13_PublishAfterInsert]_vars

\* one attempt failed to save and published nothing; another stored row 1
\* and its event reached the other participant as a frame
C13_Witness ==
    \E s, t \in Sessions :
        /\ Has(s, ErrorFrame(ErrSaveFailed))
        /\ Len(messages) = 1 /\ next_id = 2
        /\ t # s
        /\ Cardinality(FramesFor(t, messages[1].id)) = 1
        /\ \A i \in FramesFor(t, messages[1].id) :
              outbox[t][i].created_at = messages[1].created_at

(* ----------------------- claims: join, then accept -------------------- *)

\* C14, in every state: a session whose handshake has reached accept(), or
\* was accepted and has not disconnected, is a member of the group of its
\* conversation.
C14_AcceptedIsMember ==
    \A s \in Sessions :
        (self[s].pc = "accept" \/ Connected(s)) =>
            /\ self[s].room_group_name = self[s].conversation_id
            /\ s \in groups[self[s].room_group_name]

\* C14, per step: a publish to a group puts the event on the channel of every
\* accepted session of that conversation; and an event leaves a channel only
\* as a 'message' frame to its session, or when that session disconnects.
C14_PublishReachesAccepted ==
    /\ \A t \in Sessions :
          (self[t].pc = "group_send" /\ self'[t] # self[t]) =>
              \A s \in Sessions :
                  (Connected(s) /\ self[s].conversation_id = self[t].conversation_id) =>
                      /\ Len(inbox'[s]) = Len(inbox[s]) + 1
                      /\ SubSeq(inbox'[s], 1, Len(inbox[s])) = inbox[s]
                      /\ inbox'[s][Len(inbox'[s])].message_id = self[t].message.id
    /\ \A s \in Sessions :
          (Connected(s) /\ Len(inbox'[s]) < Len(inbox[s])) =>
              \/ self'[s].pc = "closed"
              \/ /\ inbox'[s] = Tail(inbox[s])
                 /\ Len(outbox'[s]) = Len(outbox[s]) + 1
                 /\ outbox'[s][Len(outbox'[s])].type = "message"
                 /\ outbox'[s][Len(outbox'[s])].message_id = Head(inbox[s]).message_id

\* C14: a session joins its conversation's group before its handshake is
\* accepted: an accepted session is always a member of the group, so a
\* message published to the group between its accept and its disconnect is
\* delivered to it.
C14_JoinBeforeAccept ==
    /\ []C14_AcceptedIsMember
    /\ [][C14_PublishReachesAccepted]_vars

\* an accepted session of u1 holds the frame of a message that the other
\* participant's session published
C14_Witness ==
    \E s, t \in Sessions :
        /\ s # t /\ Connected(s) /\ Connected(t)
        /\ self[s].user = "u1" /\ self[t].user = "u2"
        /\ s \in groups[1]
        /\ Len(messages) = 1 /\ messages[1].sender = "u2"
        /\ Cardinality(FramesFor(s, messages[1].id)) = 1

(* ---------------------- claims: leave on disconnect ------------------- *)

\* the groups session s is a member of
GroupsOf(s) == {c \in ConversationIds : s \in groups[c]}

\* C15, in every state: a disconnected session is a member of no group, a
\* session whose handshake was refused has joined none, and its disconnect
\* can run.
C15_ClosedIsNowhere ==
    \A s \in Sessions :
        /\ self[s].pc = "closed" => GroupsOf(s) = {}
        /\ self[s].pc = "closing" =>
              /\ GroupsOf(s) = {}
              /\ self[s].close_code \in
                    {CLOSE_UNAUTHENTICATED, CLOSE_FORBIDDEN, CLOSE_VANISHED}
              /\ ENABLED Disconnect(s)

\* C15, per step: the disconnect of session s removes s from every group and
\* nobody else; for a session that never joined, the groups stay as they are.
C15_DisconnectStep ==
    \A s \in Sessions :
        (self[s].pc # "closed" /\ self'[s].pc = "closed") =>
            /\ \A c \in ConversationIds : groups'[c] = groups[c] \ {s}
            /\ GroupsOf(s) = {} => groups' = groups

\* C15: every disconnect, after an accepted handshake or after one refused at
\* any step, leaves the session in no conversation group, and the leave step
\* of a session that never joined a group succeeds as a no-op.
C15_DisconnectLeavesGroups ==
    /\ []C15_ClosedIsNowhere
    /\ [][C15_DisconnectStep]_vars

\* one session disconnected after its handshake was accepted, the other
\* after a refusal; no group has a member
C15_Witness ==
    \E s, t \in Sessions :
        /\ self[s].pc = "closed" /\ self[s].accepted
        /\ self[t].pc = "closed" /\ ~self[t].accepted
        /\ self[t].close_code = CLOSE_FORBIDDEN
        /\ \A c \in ConversationIds : groups[c] = {}

(* ------------------------ claims: delivery order ---------------------- *)

\* session s has got Message id, as a frame or as an event it will forward
Holds(s, id) == FramesFor(s, id) # {} \/ EventsFor(s, id) # {}

\* the place of Message id in what session s receives: the frames sent so
\* far, then the events waiting on its channel
PlaceOf(s, id) ==
    IF FramesFor(s, id) # {}
    THEN CHOOSE i \in FramesFor(s, id) : TRUE
    ELSE Len(outbox[s]) + (CHOOSE i \in EventsFor(s, id) : TRUE)

\* C16: all participants see messages in the same order: any two messages
\* delivered to two sessions of a conversation reach both sessions in the
\* same relative order, whatever the interleaving of the senders.
C16_SameOrderForAll ==
    \A s, t \in Sessions : \A a, b \in 1..(next_id - 1) :
        (a # b /\ Holds(s, a) /\ Holds(s, b) /\ Holds(t, a) /\ Holds(t, b)) =>
            (PlaceOf(s, a) < PlaceOf(s, b)) <=> (PlaceOf(t, a) < PlaceOf(t, b))

\* two sessions sent one message each; the second row was published first,
\* and both sessions received the two frames in that order
C16_Witness ==
    \E s, t \in Sessions :
        /\ s # t /\ Len(messages) = 2
        /\ \A x \in {s, t} :
              /\ FramesFor(x, 1) # {} /\ FramesFor(x, 2) # {}
              /\ PlaceOf(x, 2) < PlaceOf(x, 1)

(* ------------------- claims: nothing pushed on connect ---------------- *)

\* the positions of connect()
HandshakePositions == {"new", "get_conversation", "group_add", "accept"}

\* session s has not joined a group yet, or was refused
NotJoined(s) == self[s].pc \in {"new", "get_conversation", "group_add", "closing"}

C17_QuietBeforeJoin ==
    \A s \in Sessions :
        /\ ~self[s].accepted => outbox[s] = <<>>
        /\ NotJoined(s) => inbox[s] = <<>>

\* per step: the steps of connect() send no frame, queue no event and read no
\* stored message; an event is queued for a session only by a publish to the
\* group it has joined, and a 'message' frame is only the forwarding of the
\* oldest queued event
C17_HandshakeStep ==
    \A s \in Sessions :
        /\ (self[s].pc \in HandshakePositions /\ self'[s] # self[s]) =>
              /\ outbox' = outbox /\ inbox' = inbox /\ messages' = messages
        /\ Len(inbox'[s]) > Len(inbox[s]) =>
              /\ s \in groups[self[s].room_group_name]
              /\ \E t \in Sessions :
                    /\ self[t].pc = "group_send" /\ self'[t].pc = "idle"
                    /\ self[t].room_group_name = self[s].room_group_name
                    /\ inbox'[s] = Append(inbox[s], ChatEvent(self[t].message))
        /\ (Len(outbox'[s]) > Len(outbox[s])
            /\ outbox'[s][Len(outbox'[s])].type = "message") =>
              /\ inbox[s] # <<>>
              /\ outbox'[s] = Append(outbox[s], MessageFrame(Head(inbox[s])))
              /\ inbox'[s] = Tail(inbox[s])

UnreadFor(s) ==
    {j \in 1..Len(messages) : /\ messages[j].conversation = self[s].conversation_id
                              /\ messages[j].sender # self[s].user
                              /\ ~messages[j].is_read}

\* C18: when a participant connects, every stored unread message of the
\* conversation sent by the other participant is delivered to the connecting
\* session as a 'message' frame carrying is_read = false, and no message sent
\* by the connecting participant is delivered.
C18_UnreadDeliveredOnConnect ==
    [][\A s \in Sessions :
          (self[s].pc = "accept" /\ self'[s].pc = "idle") =>
              /\ \A j \in UnreadFor(s) :
                    \E i \in 1..Len(outbox'[s]) :
                        /\ outbox'[s][i].type = "message"
                        /\ outbox'[s][i].message_id = messages[j].id
                        /\ "is_read" \in DOMAIN outbox'[s][i]
                        /\ outbox'[s][i].is_read = FALSE
              /\ \A i \in 1..Len(outbox'[s]) :
                    outbox'[s][i].type = "message" =>
                        outbox'[s][i].sender_id # self[s].user]_vars

(* -------------------- claims: one conversation per pair --------------- *)

\* C19: at most one conversation exists per listing and unordered pair of
\* participants, after any sequence of start_conversation requests and of
\* direct creations that the uniqueness constraint over (property,
\* participant_one, participant_two) allows.
C19_OneConversationPerListingAndPair ==
    \A c, d \in conversations :
        (/\ c.property = d.property
         /\ {c.participant_one, c.participant_two}
               = {d.participant_one, d.participant_two}) => c = d

(* --------------------------- claims: read flag ------------------------ *)

\* the positions in messages' of the row that is at position j of messages
SameRow(j) == {i \in 1..Len(messages') : messages'[i].id = messages[j].id}

\* C20, per step: a row that appears is unread; no row goes from read to
\* unread; a row goes from unread to read only in a detail-page view of a
\* participant of its conversation who is not its sender; no step of a
\* WebSocket session changes a flag.
C20_FlagStep ==
    /\ \A i \in 1..Len(messages') :
          (\A j \in 1..Len(messages) : messages[j].id # messages'[i].id) =>
              ~messages'[i].is_read
    /\ \A j \in 1..Len(messages) : \A i \in SameRow(j) :
          /\ messages[j].is_read => messages'[i].is_read
          /\ (~messages[j].is_read /\ messages'[i].is_read) =>
                \E user \in Users :
                    /\ user # messages[j].sender
                    /\ CheckUserIsParticipant(messages[j].conversation, user)
                    /\ ConversationDetail(user, messages[j].conversation)
          /\ (self' # self \/ inbox' # inbox \/ outbox' # outbox \/ groups' # groups) =>
                messages'[i].is_read = messages[j].is_read

\* C20, the views: a detail-page view changes no flag of a message the viewer
\* sent, and the view of a non-participant changes nothing.
C20_ViewStep ==
    \A user \in Users \cup {Anonymous}, cid \in ConversationIds :
        ConversationDetail(user, cid) =>
            /\ \A j \in 1..Len(messages) :
                  messages[j].sender = user => messages'[j] = messages[j]
            /\ ~CheckUserIsParticipant(cid, user) => messages' = messages

\* C20: a message's read flag starts false, changes only from false to true,
\* and is set only when the participant who is not its sender opens the
\* conversation's detail page: a view by the sender, a view by a
\* non-participant and every WebSocket operation leave it unchanged.
C20_ReadFlag == [][messages' # messages => C20_FlagStep /\ C20_ViewStep]_vars

\* both participants have sent a message; u1 opened the page after the
\* message of u2 and before their own: the first is read, the second is not
C20_Witness ==
    /\ Len(messages) = 2
    /\ messages[1].sender = "u2" /\ messages[1].is_read
    /\ messages[2].sender = "u1" /\ ~messages[2].is_read

(* ----------------------- claims: conversation list -------------------- *)

\* the stored messages of conversation row c
MessagesIn(c) == {j \in 1..Len(messages) : messages[j].conversation = c.id}

\* conversation row c holds a message at least as recent as every message of
\* the conversations of user
HasLatestMessage(c, user) ==
    \E j \in MessagesIn(c) :
        \A d \in ConversationsOf(user) : \A k \in MessagesIn(d) :
            messages[k].created_at <= messages[j].created_at

\* C21: adding a message to a conversation advances its last-activity
\* timestamp, so that the conversation list of a user is ordered by message
\* activity: the conversation that received a message most recently comes
\* first, whatever the order in which the conversations were created.
C21_ListOrderedByMessageActivity ==
    /\ \A j \in 1..Len(messages) : \A c \in ConversationRows(messages[j].conversation) :
          c.updated_at >= messages[j].created_at
    /\ \A user \in Users :
          (\E c \in ConversationsOf(user) : MessagesIn(c) # {}) =>
              \A c \in ListHeads(user) : HasLatestMessage(c, user)

(* ----------------------- claims: cooldown and quota ------------------- *)

\* the executed attempts of user u with the latest timestamp
LatestAttempts(u) ==
    {e \in BagToSet(rl_log) :
        /\ e.user = u
        /\ \A f \in BagToSet(rl_log) : f.user = u => f.ts <= e.ts}

\* session s executes the attempt it makes cooldown_seconds after its
\* rejected attempt: its last frame is the rejection, that attempt is the
\* latest of its identity, and no other session has made an attempt
RetriesAfterCooldown(s) ==
    /\ self[s].pc = "rl_exec" /\ self'[s].pc # "rl_exec"
    /\ outbox[s] # <<>>
    /\ LastFrame(s).type = "rate_limit_error"
    /\ \A t \in Sessions \ {s} : self[t].pc = "idle" /\ outbox[t] = <<>>
    /\ \E e \in LatestAttempts(self[s].user) :
          /\ LatestAttempts(self[s].user) = {e}
          /\ ~e.allowed
          /\ CopiesIn(e, rl_log) = 1
          /\ self[s].current_time
                = e.ts + LastFrame(s).cooldown_seconds * TicksPerSecond

\* C22: the cooldown_seconds of a rate-limit rejection is the time until the
\* window resets: a valid attempt of the same identity made cooldown_seconds
\* after the rejected attempt, with no other attempt of the identity in
\* between, is admitted.
C22_AdmittedAfterCooldown ==
    [][\A s \in Sessions :
          RetriesAfterCooldown(s) =>
              self'[s].pc = "rl_done" /\ self'[s].is_allowed]_vars

\* C23, per step: an attempt that executes the rate-limit step is recorded in
\* the window and a later failure does not take it back; after ten admitted
\* attempts of the identity in the last 60 seconds that failed at
\* save_message, the next attempt is rate-limited; a message refused before
\* the rate-limit step leaves the window as it was.
C23_QuotaStep ==
    \A s \in Sessions :
        /\ (self[s].pc = "rl_exec" /\ self'[s].pc # "rl_exec") =>
              /\ self[s].current_time \in zsets'[RateLimitKey(self[s].user)]
              /\ CopiesOf(Admitted(AttemptsIn(self[s].user,
                                              self[s].current_time - WindowTicks,
                                              self[s].current_time)), rl_log)
                     >= RATE_LIMIT_MESSAGES
                 => self'[s].pc = "rl_oldest"
        /\ (self[s].pc = "rl_done" /\ self'[s].pc = "idle") =>
              /\ zsets' = zsets /\ expire_at' = expire_at
              /\ self[s].is_allowed => Gets(s, ErrorFrame(ErrSaveFailed))
        /\ (self[s].pc = "idle" /\ self'[s].pc = "idle"
            /\ frames_left' # frames_left) =>
              zsets' = zsets /\ expire_at' = expire_at /\ rl_log' = rl_log

\* C23: quota is consumed exactly at the rate-limit step: an attempt that
\* passes the step and then fails has consumed one unit, so ten such failed
\* attempts within 60 seconds make the eleventh rate-limited, and attempts
\* refused before the step consume none.
C23_QuotaConsumedAtRateLimitStep == [][C23_QuotaStep]_vars

(* ------------------------ claims: stored content ---------------------- *)

\* C24: every Message row created by the send pipeline has content of at most
\* MAX_MESSAGE_LENGTH characters after sanitization, for every input that
\* passes the length check made before sanitization.
C24_StoredContentWithinLimit ==
    \A j \in 1..Len(messages) : TextLen(messages[j].content) <= MAX_MESSAGE_LENGTH

(* ------------------------ claims: protocol errors --------------------- *)

\* frames that are not valid JSON
MalformedFrames == {f \in InboundFrames : f.json = "malformed"}

\* JSON objects whose type is neither chat_message nor ping
UnknownTypeFrames ==
    {f \in InboundFrames :
        f.json = "object" /\ f.type \notin {"absent", "chat_message", "ping"}}

\* JSON objects without a type field
UntypedFrames == {f \in InboundFrames : f.json = "object" /\ f.type = "absent"}

\* the step answers session s with the error m and does nothing else: no
\* row, no rate-limit entry, no event, and every session stays as it is
OnlyAnswers(s, m) ==
    /\ Gets(s, ErrorFrame(m))
    /\ \A t \in Sessions \ {s} : outbox'[t] = outbox[t]
    /\ messages' = messages /\ next_id' = next_id
    /\ zsets' = zsets /\ expire_at' = expire_at /\ rl_log' = rl_log
    /\ inbox' = inbox /\ groups' = groups
    /\ self' = self /\ Connected(s)

\* C25, per step: a frame that is not JSON is answered with 'Invalid message
\* format', a frame of an unknown type with 'Unknown message type', and
\* neither does anything else; a frame without a type is handled as the same
\* frame with type chat_message, here one that enters the send pipeline.
C25_ProtocolStep ==
    \A s \in Sessions :
        (self[s].pc = "idle" /\ frames_left' # frames_left) =>
            /\ \A frame \in MalformedFrames :
                  Receive(s, frame, clock' - clock) => OnlyAnswers(s, ErrInvalidFormat)
            /\ \A frame \in UnknownTypeFrames :
                  Receive(s, frame, clock' - clock) => OnlyAnswers(s, ErrUnknownType)
            /\ \A frame \in UntypedFrames :
                  Receive(s, frame, clock' - clock) =>
                      /\ Receive(s, [frame EXCEPT !.type = "chat_message"],
                                 clock' - clock)
                      /\ self'[s].pc = "rl_exec"
                      /\ self'[s].message_content = Strip(frame.message)

\* C25: malformed JSON yields an 'Invalid message format' error and an
\* unrecognized type an 'Unknown message type' error, both without a row, a
\* rate-limit entry or a broadcast and with the connection left open; a frame
\* with no type field is handled as a chat_message.
C25_ProtocolErrors == [][C25_ProtocolStep]_vars

\* the session of u2 sent a malformed frame and one of an unknown type: it
\* holds the two errors, is still connected, and nothing else has changed
C25_Witness ==
    \E s \in Sessions :
        /\ self[s].user = "u2" /\ Connected(s) /\ self[s].pc = "idle"
        /\ outbox[s] = << ErrorFrame(ErrInvalidFormat), ErrorFrame(ErrUnknownType) >>
        /\ messages = <<>> /\ zsets["u2"] = {}
        /\ \A t \in Sessions : inbox[t] = <<>>

(* --------------------------- claims: sanitizer ------------------------ *)

\* text t contains a tag or a script element
HasMarkup(t) == \E i \in 1..Len(t) : t[i].k \in {"tag", "script"}

\* 'Hello'
Hello == << Run("ch", 5) >>

\* C26, per step: the content stored for the text t of a frame is
\* sanitize(t); sanitizing it again changes nothing; it is t itself when t
\* contains no markup; it is 'Hello' for '<script>alert("XSS")</script>Hello',
\* and the event published for the row carries that content.
C26_SanitizeStep ==
    \A s \in Sessions :
        /\ (self[s].pc = "rl_done" /\ self'[s].pc = "group_send") =>
              LET t == self[s].message_content
                  row == messages'[Len(messages')]
              IN  /\ row.content = NhClean(t)
                  /\ NhClean(row.content) = row.content
                  /\ ~HasMarkup(t) => row.content = t
                  /\ t = TxtXss => row.content = Hello
        /\ (self[s].pc = "group_send" /\ self'[s].pc = "idle") =>
              \A t \in Sessions :
                  Len(inbox'[t]) > Len(inbox[t]) =>
                      inbox'[t][Len(inbox'[t])].message = self[s].message.content

\* C26: the sanitizer is idempotent and leaves plain text unchanged:
\* sanitize(sanitize(t)) = sanitize(t) for every text t, sanitize(t) = t for
\* every t without markup, and '<script>alert("XSS")</script>Hello' is
\* persisted and broadcast as exactly 'Hello'.
C26_SanitizerIdempotentAndPlainTextKept == [][C26_SanitizeStep]_vars

(* --------------------- claims: who receives messages ------------------ *)

\* the identity of session s is a participant of the conversation row that
\* the session loaded in connect()
IsParticipantOfCached(s) ==
    /\ self[s].conversation.id = self[s].conversation_id
    /\ self[s].user \in {self[s].conversation.participant_one,
                         self[s].conversation.participant_two}

\* C27, the groups: every member of the group of conversation c is a session
\* connected to c whose identity is authenticated and passed the participant
\* check for c.
C27_MembersAreParticipants ==
    \A c \in ConversationIds : \A s \in groups[c] :
        /\ self[s].conversation_id = c
        /\ self[s].user # Anonymous
        /\ IsParticipantOfCached(s)
        /\ c \in {d.id : d \in InitialConversations}

\* C27, the frames: a session that holds a 'message' frame or a queued event
\* is one that passed the participant check, and the message is one of its
\* conversation, sent by one of the two participants.
C27_FramesReachParticipants ==
    \A s \in Sessions :
        /\ (inbox[s] # <<>> \/ HasType(s, "message")) => IsParticipantOfCached(s)
        /\ \A i \in 1..Len(outbox[s]) :
              outbox[s][i].type = "message" =>
                  /\ outbox[s][i].sender_id \in
                        {self[s].conversation.participant_one,
                         self[s].conversation.participant_two}
                  /\ \A j \in StoredRows(outbox[s][i].message_id) :
                        messages[j].conversation = self[s].conversation_id

\* C27: a 'message' frame of a conversation reaches only sessions whose
\* authenticated identity is one of its two participants: after any sequence
\* of connects, refused handshakes, disconnects and sends, every member of
\* group chat_<id> is a session that passed the participant check for <id>.
C27_OnlyParticipantsReceive ==
    C27_MembersAreParticipants /\ C27_FramesReachParticipants

\* u3 asked for conversation 1 and was refused; the session of u2 sent a
\* message there and got its frame; the refused session got nothing
C27_Witness ==
    \E s, t \in Sessions :
        /\ Connected(s) /\ self[s].user = "u2" /\ s \in groups[1]
        /\ Len(messages) = 1 /\ FramesFor(s, messages[1].id) # {}
        /\ self[t].user = "u3" /\ self[t].conversation_id = 1
        /\ self[t].close_code = CLOSE_FORBIDDEN
        /\ outbox[t] = <<>> /\ inbox[t] = <<>>

(* ------------------------- claims: empty content ---------------------- *)

\* C28: no Message row with empty content is created by the send pipeline and
\* no 'message' frame with empty content is broadcast, for every input frame,
\* inputs that consist only of markup included.
C28_NoEmptyContent ==
    /\ \A j \in 1..Len(messages) : messages[j].content # <<>>
    /\ \A s \in Sessions :
          /\ \A i \in 1..Len(inbox[s]) : inbox[s][i].message # <<>>
          /\ \A i \in 1..Len(outbox[s]) :
                outbox[s][i].type = "message" => outbox[s][i].message # <<>>

(* -------------------- claims: live order and storage ------------------ *)

\* C29: live delivery order agrees with storage order: when two sessions send
\* to one conversation concurrently, every member receives the two 'message'
\* frames in the order in which the two rows were created (ascending
\* identifier and creation time), the order the detail page replays them in.
C29_DeliveryInStorageOrder ==
    \A s \in Sessions : \A a, b \in 1..(next_id - 1) :
        (a < b /\ Holds(s, a) /\ Holds(s, b)) => PlaceOf(s, a) < PlaceOf(s, b)


(* ------------------- claims: every row is published ------------------- *)

\* the send of session s ends in this step: it inserted a row and now leaves
\* the publish
C30_SendEnds(s) == self[s].pc = "group_send" /\ self'[s].pc # "group_send"

\* C30: every Message row created by the send pipeline is published to its
\* conversation group: when a send that inserted a row ends, the event of
\* that row has been queued for the sessions of the group, the sender's own
\* among them, also when the publish itself fails after the insert.
C30_EveryRowPublished ==
    [][\A s \in Sessions :
          C30_SendEnds(s) =>
              \E t \in Sessions :
                  /\ Len(inbox'[t]) = Len(inbox[t]) + 1
                  /\ inbox'[t][Len(inbox'[t])].message_id = self[s].message.id]_vars

====
